---- MODULE Spec2Model ----
(***************************************************************************)
(* Event transcript and sample lifecycle of inspect_ai:                    *)
(*   log/_transcript.py        events, Transcript, the current-transcript  *)
(*                             context variable, change tracking           *)
(*   _display/.../samples.py   the sample toolbar (operator cancellation)  *)
(* Python values: None is the string "None", True the string "True"; an    *)
(* optional pair (truncated) is the empty sequence when it is None.        *)
(***************************************************************************)
EXTENDS Integers, Sequences, FiniteSets, TLC

VARIABLES
    events,    \* Transcript._events of every Transcript object
    ctx,       \* the value of the _transcript ContextVar in each execution context
    ustate,    \* each unit of work: "idle" (not started), "running", "done"
    frames,    \* per unit, the stack of open Transcript.step scopes
    store,     \* the Store provisioned with each Transcript (JSON mapping)
    tstate,    \* the ambient TaskState of the sample (JSON mapping)
    tasks,     \* asyncio tasks backing tool calls
    toolbar,   \* SampleToolbar widget state
    completed, \* ActiveSample.completed
    nres,      \* history: number of _set_result calls made on each event slot
    creq,      \* history: per event slot, how _cancel found the event while pending
    sunk,      \* history: data given to info() in contexts that have no binding
    last,      \* history: the last operation on a context or a step scope
    interrupt_action, \* ActiveSample: the mode of the interrupt requested, or None
    snapA,     \* change detection: the snapshot taken before
    snapB,     \* change detection: the snapshot taken after
    delta,     \* change detection: the change records computed, or None
    patched,   \* change detection: snapA with the change records applied, or None
    slist,     \* SamplesList.samples: the ids of the samples listed, in order
    highlighted, \* SamplesList.highlighted: an index from 0, or NoHighlight
    exec_time, \* ActiveSample.execution_time of each sample
    now,       \* time.perf_counter(), in seconds
    last_updated, \* SamplesView.last_updated
    count,     \* history: the number of samples given to SamplesView.set_samples
    fwd,       \* history: whether that call forwarded the samples to the list
    elapsed,   \* history: the time since last_updated that the call found
    call_arg,  \* function under check: its argument
    call_result, \* function under check: <<result>> once it was applied
    call_again \* function under check: <<result>> of applying it to its result

\* the variables of change detection on snapshots
dvars == <<snapA, snapB, delta, patched>>

\* the variables of the samples view and its list
wvars == <<slist, highlighted, exec_time, now, last_updated, count, fwd, elapsed>>

\* the variables of a function under check
fvars == <<call_arg, call_result, call_again>>

vars == <<events, ctx, ustate, frames, store, tstate, tasks, toolbar, completed,
          nres, creq, sunk, last, interrupt_action, dvars, wvars, fvars>>

-----------------------------------------------------------------------------
(* Bounds *)

MaxEvents == 2
MaxTools == 1
MaxSteps == 1
MaxNested == 1

-----------------------------------------------------------------------------
(* Python constants *)

None == "None"
True == "True"

SAMPLE_SUBTASK == "sample"

-----------------------------------------------------------------------------
(* Objects *)

Units == {"main", "sample", "sub1", "sub2"}

Parent(u) == IF u = "sample" THEN "main" ELSE "sample"

DefaultTranscript == "default"

Transcripts == {DefaultTranscript, "t_sample", "t_sub1", "t_sub2"}

\* Transcript.name
TranscriptName(t) ==
    CASE t = DefaultTranscript -> ""
      [] t = "t_sample" -> SAMPLE_SUBTASK
      [] t = "t_sub1" -> "sub1"
      [] t = "t_sub2" -> "sub2"

\* the Transcript a unit creates for itself on entry
OwnTranscript(u) ==
    CASE u = "sample" -> "t_sample"
      [] u = "sub1" -> "t_sub1"
      [] u = "sub2" -> "t_sub2"

\* handles of the asyncio tasks and ids of the tool calls, by event slot
TaskSeq == <<"k1", "k2", "k3", "k4", "k5">>

CallSeq == <<"c1", "c2", "c3", "c4", "c5">>

Slots == 1..MaxEvents

TaskIds == {TaskSeq[i] : i \in Slots}

\* every event slot a sample transcript can have, and the tasks behind them
AllSlots == 1..Len(TaskSeq)

AllTaskIds == {TaskSeq[i] : i \in AllSlots}

\* JSON mappings (Store, TaskState): functions on Keys, Absent for a missing key
KeySeq == <<"x">>

Keys == {KeySeq[i] : i \in 1..Len(KeySeq)}

Vals == {"v1", "v2"}

Absent == "absent"

EmptyMap == [k \in Keys |-> Absent]

\* the step(name, type) calls made
StepInputs ==
    { [name |-> "generate", type |-> "solver"], [name |-> "plan", type |-> None] }

\* JSON data given to Transcript.info
Data == {"d1", "d2"}

\* what a finished tool call hands to _set_result: result, truncated, error, events
Outcomes ==
    { [result |-> "ok", truncated |-> <<>>, error |-> None, events |-> <<>>],
      [result |-> "out", truncated |-> <<0, 1>>, error |-> None,
       events |-> <<[event |-> "info", pending |-> None, data |-> "d1"]>>],
      [result |-> "", truncated |-> <<>>, error |-> "timeout", events |-> <<>>] }

\* the ids of the active samples
SampleIds == {"a", "b", "c"}

Last(s) == s[Len(s)]

Op(name, unit) == [op |-> name, unit |-> unit]

-----------------------------------------------------------------------------
(* Events *)

InfoEventLosesData(data) == [event |-> "info", pending |-> None, data |-> "null"]

InfoEvent(data) == [event |-> "info", pending |-> None, data |-> data]

StepEvent(action, name, type) ==
    [event |-> "step", pending |-> None, action |-> action, name |-> name,
     type |-> type]

StoreEvent(changes) == [event |-> "store", pending |-> None, changes |-> changes]

StateEvent(changes) == [event |-> "state", pending |-> None, changes |-> changes]

\* ToolEvent(id=..., pending=pending): the field defaults of the class
ToolEvent(id, pending) ==
    [event |-> "tool", pending |-> pending, id |-> id, result |-> "",
     truncated |-> <<>>, error |-> None, events |-> <<>>,
     task |-> None, cancelled |-> None]

IsTool(e) == e.event = "tool"

\* Transcript._event
AppendAtHead(evs, e) == <<e>> \o evs

AppendEvent(evs, e) == Append(evs, e)

\* ToolEvent._set_result
SetResultResetsCancelled(e, result, truncated, error, evs) ==
    [e EXCEPT !.result = result, !.truncated = truncated, !.error = error,
              !.events = evs, !.pending = None, !.cancelled = None]

SetResultNoClear(e, result, truncated, error, evs) ==
    [e EXCEPT !.result = result, !.truncated = truncated, !.error = error,
              !.events = evs]

SetResultDropsEvents(e, result, truncated, error, evs) ==
    [e EXCEPT !.result = result, !.truncated = truncated, !.error = error,
              !.pending = None]

set_result(e, result, truncated, error, evs) ==
    [e EXCEPT !.result = result, !.truncated = truncated, !.error = error,
              !.events = evs, !.pending = None]

\* ToolEvent._set_task
set_task(e, task) == [e EXCEPT !.task = task]

\* ToolEvent._cancel: whether the call reaches task.cancel()
cancel_requests(e) == e.task # None

\* ToolEvent._cancel: the event afterwards
CancelTogglesMarker(e) ==
    IF e.task # None
    THEN [e EXCEPT !.cancelled = IF @ = True THEN None ELSE True]
    ELSE e

CancelMarksWithoutTask(e) == [e EXCEPT !.cancelled = True]

CancelClearsPending(e) ==
    IF e.task # None THEN [e EXCEPT !.cancelled = True, !.pending = None] ELSE e

CancelSetsNoMarker(e) == e

cancel(e) == IF e.task # None THEN [e EXCEPT !.cancelled = True] ELSE e

\* ToolEvent.cancelled
cancelled(e) == e.cancelled = True

\* asyncio.Task.cancel(): a finished task is left alone
task_cancel(st) == IF st = "running" THEN "cancelling" ELSE st

-----------------------------------------------------------------------------
(* Change detection on JSON mappings *)

\* the change records for one key
KeyChanges(before, after, k) ==
    IF before[k] = after[k] THEN <<>>
    ELSE IF after[k] = Absent THEN <<[op |-> "remove", path |-> <<k>>]>>
    ELSE IF before[k] = Absent
         THEN <<[op |-> "add", path |-> <<k>>, value |-> after[k]]>>
         ELSE <<[op |-> "replace", path |-> <<k>>, value |-> after[k]]>>

RECURSIVE ChangesFrom(_, _, _)
ChangesFrom(before, after, i) ==
    IF i > Len(KeySeq) THEN <<>>
    ELSE KeyChanges(before, after, KeySeq[i]) \o ChangesFrom(before, after, i + 1)

\* json_changes(before, after)
json_changes(before, after) == ChangesFrom(before, after, 1)

\* store_changes(before, after)
store_changes(before, after) == json_changes(before, after)

-----------------------------------------------------------------------------
(* Change detection on snapshots: trees of mappings, sequences and scalars *)

\* the longest sequence in a snapshot
MaxSeqLen == 2

Scalars == {"a", "b"}

\* the keys of a mapping, in traversal order
MapKeySeq == <<"x", "y">>

\* the path element of a sequence index (JSON indices count from 0)
IdxSeq == <<"0", "1", "2", "3", "4">>

\* a node is a record: kind, val (of a scalar), kids (the children of a
\* sequence in order; of a mapping one per key of MapKeySeq, NoTree for a
\* key the mapping does not have)
NoTree == [kind |-> "absent", val |-> "", kids |-> <<>>]

Scalar(v) == [kind |-> "scalar", val |-> v, kids |-> <<>>]

MapOf(kids) == [kind |-> "map", val |-> "", kids |-> kids]

SeqOf(kids) == [kind |-> "seq", val |-> "", kids |-> kids]

EmptyTree == MapOf([i \in 1..Len(MapKeySeq) |-> NoTree])

Leaves == {Scalar(v) : v \in Scalars}

\* the values a key of the top-level mapping can hold: scalars, mappings of
\* scalars, sequences of scalars
Inner ==
    Leaves
    \cup {MapOf(k) : k \in [1..Len(MapKeySeq) -> Leaves \cup {NoTree}]}
    \cup UNION {{SeqOf(k) : k \in [1..n -> Leaves]} : n \in 0..MaxSeqLen}

\* the snapshots: a mapping whose first key holds any inner value or is
\* missing and whose other keys hold a scalar or are missing
Snapshots ==
    {MapOf(k) : k \in {f \in [1..Len(MapKeySeq) -> Inner \cup {NoTree}] :
                          \A i \in 2..Len(MapKeySeq) : f[i] \in Leaves \cup {NoTree}}}

Min(m, n) == IF m <= n THEN m ELSE n

RECURSIVE diff(_, _, _)
RECURSIVE diff_keys(_, _, _, _)
RECURSIVE diff_items(_, _, _, _)

\* two mappings, from key i on: a key only in the old one yields remove, a
\* key only in the new one yields add, a key in both recurses
DiffKeysNoRecurse(a, b, path, i) ==
    IF i > Len(MapKeySeq) THEN <<>>
    ELSE LET p == Append(path, MapKeySeq[i])
             here == IF a.kids[i] = NoTree /\ b.kids[i] = NoTree THEN <<>>
                     ELSE IF b.kids[i] = NoTree
                          THEN <<[op |-> "remove", path |-> p]>>
                          ELSE IF a.kids[i] = NoTree
                               THEN <<[op |-> "add", path |-> p, value |-> b.kids[i]]>>
                               ELSE <<[op |-> "replace", path |-> p,
                                       value |-> b.kids[i]]>>
         IN here \o diff_keys(a, b, path, i + 1)

diff_keys(a, b, path, i) ==
    IF i > Len(MapKeySeq) THEN <<>>
    ELSE LET p == Append(path, MapKeySeq[i])
             here == IF a.kids[i] = NoTree /\ b.kids[i] = NoTree THEN <<>>
                     ELSE IF b.kids[i] = NoTree
                          THEN <<[op |-> "remove", path |-> p]>>
                          ELSE IF a.kids[i] = NoTree
                               THEN <<[op |-> "add", path |-> p, value |-> b.kids[i]]>>
                               ELSE diff(a.kids[i], b.kids[i], p)
         IN here \o diff_keys(a, b, path, i + 1)

\* two sequences, element by element from index i up to the shorter length
diff_items(a, b, path, i) ==
    IF i > Min(Len(a.kids), Len(b.kids)) THEN <<>>
    ELSE diff(a.kids[i], b.kids[i], Append(path, IdxSeq[i]))
             \o diff_items(a, b, path, i + 1)

\* the new sequence is longer: its trailing elements are added in order
trailing_adds(a, b, path) ==
    [j \in 1..(Len(b.kids) - Len(a.kids)) |->
        [op |-> "add", path |-> Append(path, IdxSeq[Len(a.kids) + j]),
         value |-> b.kids[Len(a.kids) + j]]]

\* the old sequence is longer: its trailing elements are removed, last first
TrailingRemovesAscending(a, b, path) ==
    [j \in 1..(Len(a.kids) - Len(b.kids)) |->
        [op |-> "remove", path |-> Append(path, IdxSeq[Len(b.kids) + j])]]

trailing_removes(a, b, path) ==
    [j \in 1..(Len(a.kids) - Len(b.kids)) |->
        [op |-> "remove", path |-> Append(path, IdxSeq[Len(a.kids) - j + 1])]]

\* the recursive structural diff of two snapshots, path being where they are
diff(a, b, path) ==
    IF a.kind = "map" /\ b.kind = "map" THEN diff_keys(a, b, path, 1)
    ELSE IF a.kind = "seq" /\ b.kind = "seq"
         THEN diff_items(a, b, path, 1) \o trailing_adds(a, b, path)
                  \o trailing_removes(a, b, path)
         ELSE IF a = b THEN <<>>
              ELSE <<[op |-> "replace", path |-> path, value |-> b]>>

\* what applying a change record gives where the record does not fit the tree
PatchError == [kind |-> "error", val |-> "", kids |-> <<>>]

PositionIn(seq, key) ==
    IF \E j \in 1..Len(seq) : seq[j] = key
    THEN CHOOSE j \in 1..Len(seq) : seq[j] = key
    ELSE 0

\* tree t with change record c applied, c.path read from position i
RECURSIVE patch_at(_, _, _)
patch_at(t, c, i) ==
    IF i > Len(c.path) THEN (IF c.op = "replace" THEN c.value ELSE PatchError)
    ELSE IF t.kind = "map"
    THEN LET n == PositionIn(MapKeySeq, c.path[i])
         IN IF n = 0 THEN PatchError
            ELSE IF i = Len(c.path) /\ c.op = "remove"
                 THEN (IF t.kids[n] = NoTree THEN PatchError
                       ELSE MapOf([t.kids EXCEPT ![n] = NoTree]))
            ELSE IF i = Len(c.path) /\ c.op = "add"
                 THEN MapOf([t.kids EXCEPT ![n] = c.value])
            ELSE IF t.kids[n] = NoTree THEN PatchError
                 ELSE MapOf([t.kids EXCEPT ![n] = patch_at(t.kids[n], c, i + 1)])
    ELSE IF t.kind = "seq"
    THEN LET n == PositionIn(IdxSeq, c.path[i])
             len == Len(t.kids)
         IN IF i = Len(c.path) /\ c.op = "add"
            THEN (IF n = 0 \/ n > len + 1 THEN PatchError
                  ELSE SeqOf(SubSeq(t.kids, 1, n - 1) \o <<c.value>>
                                 \o SubSeq(t.kids, n, len)))
            ELSE IF n = 0 \/ n > len THEN PatchError
            ELSE IF i = Len(c.path) /\ c.op = "remove"
                 THEN SeqOf(SubSeq(t.kids, 1, n - 1) \o SubSeq(t.kids, n + 1, len))
                 ELSE SeqOf([t.kids EXCEPT ![n] = patch_at(t.kids[n], c, i + 1)])
    ELSE PatchError

\* the change records cs applied to t in order, from record i on
RECURSIVE apply_changes(_, _, _)
apply_changes(t, cs, i) ==
    IF i > Len(cs) THEN t ELSE apply_changes(patch_at(t, cs[i], 1), cs, i + 1)

\* the subtree of t at path, read from position i; NoTree where there is none
RECURSIVE value_at(_, _, _)
value_at(t, path, i) ==
    IF i > Len(path) THEN t
    ELSE LET n == IF t.kind = "map" THEN PositionIn(MapKeySeq, path[i])
                  ELSE IF t.kind = "seq" THEN PositionIn(IdxSeq, path[i])
                  ELSE 0
         IN IF n = 0 \/ n > Len(t.kids) THEN NoTree
            ELSE value_at(t.kids[n], path, i + 1)

-----------------------------------------------------------------------------
(* The context variable *)

\* transcript(): _transcript.get(), the default when the context has no binding
TranscriptNoDefault(u) == IF ctx[u] = None THEN "t_sample" ELSE ctx[u]

transcript(u) == IF ctx[u] = None THEN DefaultTranscript ELSE ctx[u]

\* the sample's unit runs, bound to the sample's Transcript
InSample == ustate["sample"] = "running" /\ ctx["sample"] = "t_sample"

\* init_transcript(t) called in the context of unit u: _transcript.set(t)
InitTranscriptGlobal(c, u, t) == [v \in Units |-> t]

init_transcript(c, u, t) == [c EXCEPT ![u] = t]

-----------------------------------------------------------------------------
(* Initial state: no unit started, every transcript empty, the toolbar as   *)
(* on_mount leaves it.                                                      *)

InitProgram ==
    /\ events = [t \in Transcripts |-> <<>>]
    /\ ctx = [u \in Units |-> None]
    /\ ustate = [u \in Units |-> IF u = "main" THEN "running" ELSE "idle"]
    /\ frames = [u \in Units |-> <<>>]
    /\ store = [t \in Transcripts |-> EmptyMap]
    /\ tstate = EmptyMap
    /\ tasks = [k \in AllTaskIds |-> "none"]
    /\ toolbar = [sample |-> None, display |-> TRUE, pending_status |-> FALSE,
                  timeout_tool |-> FALSE, clock |-> FALSE]
    /\ completed = FALSE
    /\ nres = [i \in AllSlots |-> 0]
    /\ creq = [i \in AllSlots |-> {}]
    /\ sunk = <<>>
    /\ last = Op("init", "main")
    /\ interrupt_action = None

\* SamplesList.highlighted is None
NoHighlight == -2

\* the samples view as constructed: no sample listed, none highlighted
InitWidgets ==
    /\ slist = <<>>
    /\ highlighted = NoHighlight
    /\ exec_time = [x \in SampleIds |-> 0]
    /\ now = 0
    /\ last_updated = 0
    /\ count = 0
    /\ fwd = FALSE
    /\ elapsed = 0

\* no function under check
InitCall ==
    /\ call_arg = <<>>
    /\ call_result = <<>>
    /\ call_again = <<>>

Init ==
    /\ InitProgram
    /\ snapA = EmptyTree
    /\ snapB = EmptyTree
    /\ delta = <<>>
    /\ patched = <<>>
    /\ InitWidgets
    /\ InitCall

-----------------------------------------------------------------------------
(* Sample start and Transcript.info *)

\* entering a sample: the sample's unit starts and binds its own Transcript
StartSample ==
    /\ ustate["sample"] = "idle"
    /\ ustate' = [ustate EXCEPT !["sample"] = "running"]
    /\ ctx' = [ctx EXCEPT !["sample"] = OwnTranscript("sample")]
    /\ last' = Op("start_sample", "sample")
    /\ UNCHANGED <<events, frames, store, tstate, tasks, toolbar, completed, nres, creq, sunk, interrupt_action, dvars, wvars, fvars>>

\* the number of events in all transcripts together
RECURSIVE TotalEvents(_)
TotalEvents(ts) ==
    IF ts = {} THEN 0
    ELSE LET t == CHOOSE x \in ts : TRUE
         IN Len(events[t]) + TotalEvents(ts \ {t})

\* transcript().info(data) called by unit u
Info(u, data) ==
    /\ ustate[u] = "running"
    /\ TotalEvents(Transcripts) < MaxEvents
    /\ events' = [events EXCEPT ![transcript(u)] = AppendEvent(@, InfoEvent(data))]
    /\ sunk' = IF ctx[u] = None THEN Append(sunk, data) ELSE sunk
    /\ last' = Op("info", u)
    /\ UNCHANGED <<ctx, ustate, frames, store, tstate, tasks, toolbar, completed, nres, creq, interrupt_action, dvars, wvars, fvars>>

-----------------------------------------------------------------------------
(* Execution contexts: units of work and their transcript binding *)

\* a unit is started by its parent and runs in a copy of the parent's context
Spawn(u) ==
    /\ ustate[u] = "idle"
    /\ ustate[Parent(u)] = "running"
    /\ ustate' = [ustate EXCEPT ![u] = "running"]
    /\ ctx' = [ctx EXCEPT ![u] = ctx[Parent(u)]]
    /\ last' = Op("spawn", u)
    /\ UNCHANGED <<events, frames, store, tstate, tasks, toolbar, completed, nres, creq, sunk, interrupt_action, dvars, wvars, fvars>>

\* a started sample or subtask binds its own Transcript
InitTranscript(u) ==
    /\ ustate[u] = "running"
    /\ ctx[u] # OwnTranscript(u)
    /\ ctx' = init_transcript(ctx, u, OwnTranscript(u))
    /\ last' = Op("init_transcript", u)
    /\ UNCHANGED <<events, ustate, frames, store, tstate, tasks, toolbar, completed, nres, creq, sunk, interrupt_action, dvars, wvars, fvars>>

\* a unit ends once the units it started have ended
Finish(u) ==
    /\ ustate[u] = "running"
    /\ \A c \in Units \ {"main"} : Parent(c) = u => ustate[c] # "running"
    /\ ustate' = [ustate EXCEPT ![u] = "done"]
    /\ last' = Op("finish", u)
    /\ UNCHANGED <<events, ctx, frames, store, tstate, tasks, toolbar, completed, nres, creq, sunk, interrupt_action, dvars, wvars, fvars>>

NextCtx ==
    \/ \E u \in Units \ {"main"} : Spawn(u)
    \/ \E u \in Units \ {"main"} : InitTranscript(u)
    \/ \E u \in Units \ {"main"} : Finish(u)
    \/ \E u \in Units, d \in Data : Info(u, d)

SpecCtx == Init /\ [][NextCtx]_vars

-----------------------------------------------------------------------------
(* Transcript.step and the change tracking around it *)

\* store(): the ambient Store of unit u, provisioned with its Transcript
ambient_store(u) == store[transcript(u)]

\* track_store_changes, after the scoped work: the events it appends
TrackStoreAlways(before, after) == <<StoreEvent(store_changes(before, after))>>

TrackStoreReversed(before, after) ==
    IF store_changes(after, before) # <<>>
    THEN <<StoreEvent(store_changes(after, before))>>
    ELSE <<>>

track_store_changes(before, after) ==
    IF store_changes(before, after) # <<>>
    THEN <<StoreEvent(store_changes(before, after))>>
    ELSE <<>>

\* track_state_changes(type): whether tracking is engaged for unit u
StateTrackingIgnoresType(u, type) ==
    TranscriptName(transcript(u)) = SAMPLE_SUBTASK

state_tracking_engaged(u, type) ==
    TranscriptName(transcript(u)) = SAMPLE_SUBTASK /\ type # "solver"

\* track_state_changes, after the scoped work: the events it appends
track_state_changes(engaged, before, after) ==
    IF engaged /\ json_changes(before, after) # <<>>
    THEN <<StateEvent(json_changes(before, after))>>
    ELSE <<>>

\* with track_state_changes(type), track_store_changes(): the events that
\* the two trackers of scope f append when the scoped work has returned; the
\* store tracker, entered last, is left first
TrackedChangesStateFirst(f, after_store, after_state) ==
    track_state_changes(f.engaged, f.before_state, after_state)
        \o track_store_changes(f.before_store, after_store)

tracked_changes(f, after_store, after_state) ==
    track_store_changes(f.before_store, after_store)
        \o track_state_changes(f.engaged, f.before_state, after_state)

\* the number of step scopes entered so far, over all transcripts
StepsBegun ==
    Cardinality(UNION {
        { <<t, i>> : i \in {j \in 1..Len(events[t]) :
                               /\ events[t][j].event = "step"
                               /\ events[t][j].action = "begin"} }
        : t \in Transcripts })

\* step(name, type) up to its yield: the begin event and the snapshots
EnterScope(u, in) ==
    /\ events' = [events EXCEPT ![transcript(u)] =
                      AppendEvent(@, StepEvent("begin", in.name, in.type))]
    /\ frames' = [frames EXCEPT ![u] = Append(@,
           [self |-> transcript(u), name |-> in.name, type |-> in.type,
            engaged |-> state_tracking_engaged(u, in.type),
            before_state |-> IF state_tracking_engaged(u, in.type)
                             THEN tstate ELSE EmptyMap,
            before_store |-> ambient_store(u)])]
    /\ last' = Op("step_enter", u)
    /\ UNCHANGED <<ctx, ustate, store, tstate, tasks, toolbar, completed, nres, creq, sunk, interrupt_action, dvars, wvars, fvars>>

\* with transcript().step(name, type): entry of the scope
StepEnter(u, in) ==
    /\ ustate[u] = "running"
    /\ StepsBegun < MaxSteps
    /\ EnterScope(u, in)

\* a step scope entered by the work of an open scope
StepEnterInner(u, in) ==
    /\ ustate[u] = "running"
    /\ frames[u] # <<>>
    /\ StepsBegun < MaxSteps + MaxNested
    /\ EnterScope(u, in)

\* the scoped work sets or deletes a key of the ambient store
StoreSet(u, k, v) ==
    /\ ustate[u] = "running"
    /\ frames[u] # <<>>
    /\ ambient_store(u)[k] # v
    /\ store' = [store EXCEPT ![transcript(u)][k] = v]
    /\ last' = Op("store_set", u)
    /\ UNCHANGED <<events, ctx, ustate, frames, tstate, tasks, toolbar, completed, nres, creq, sunk, interrupt_action, dvars, wvars, fvars>>

\* the value that follows v in the order absent, v1, v2
NextVal(v) == IF v = Absent THEN "v1" ELSE "v2"

\* the scoped work sets a key of the ambient store to a value that the key
\* did not have before, so that a (key, value) pair names one mutation
StoreSetFresh(u, k) ==
    /\ ustate[u] = "running"
    /\ frames[u] # <<>>
    /\ ambient_store(u)[k] # "v2"
    /\ store' = [store EXCEPT ![transcript(u)][k] = NextVal(@)]
    /\ last' = Op("store_set", u)
    /\ UNCHANGED <<events, ctx, ustate, frames, tstate, tasks, toolbar, completed, nres, creq, sunk, interrupt_action, dvars, wvars, fvars>>

\* a running unit, in a scope or not, sets a key of its ambient store
StoreWrite(u, k, v) ==
    /\ ustate[u] = "running"
    /\ ambient_store(u)[k] # v
    /\ store' = [store EXCEPT ![transcript(u)][k] = v]
    /\ last' = Op("store_set", u)
    /\ UNCHANGED <<events, ctx, ustate, frames, tstate, tasks, toolbar, completed, nres, creq, sunk, interrupt_action, dvars, wvars, fvars>>

\* the scoped work of the sample changes the task state
StateSet(k, v) ==
    /\ InSample
    /\ frames["sample"] # <<>>
    /\ tstate[k] # v
    /\ tstate' = [tstate EXCEPT ![k] = v]
    /\ last' = Op("state_set", "sample")
    /\ UNCHANGED <<events, ctx, ustate, frames, store, tasks, toolbar, completed, nres, creq, sunk, interrupt_action, dvars, wvars, fvars>>

\* the scope that a return of the scoped work leaves: the innermost open
\* one, whose name and type the generator of step() holds for its end event
ClosingScopeOutermost(fs) == fs[1]

closing_scope(fs) == Last(fs)

\* the scoped work returns: the with block of step() is left normally
StepExit(u) ==
    /\ frames[u] # <<>>
    /\ LET f == closing_scope(frames[u])
           changes == tracked_changes(f, ambient_store(u), tstate)
           tracked == [events EXCEPT ![transcript(u)] = @ \o changes]
       IN events' = [tracked EXCEPT ![f.self] =
                        AppendEvent(@, StepEvent("end", f.name, f.type))]
    /\ frames' = [frames EXCEPT ![u] = SubSeq(@, 1, Len(@) - 1)]
    /\ last' = Op("step_exit", u)
    /\ UNCHANGED <<ctx, ustate, store, tstate, tasks, toolbar, completed, nres, creq, sunk, interrupt_action, dvars, wvars, fvars>>

\* the scoped work raises (how = "error") or is cancelled (how = "cancel"):
\* the exception leaves the with block of step() through the generators
StepRaise(u, how) ==
    /\ frames[u] # <<>>
    /\ frames' = [frames EXCEPT ![u] = SubSeq(@, 1, Len(@) - 1)]
    /\ last' = Op(IF how = "error" THEN "step_error" ELSE "step_cancel", u)
    /\ UNCHANGED <<events, ctx, ustate, store, tstate, tasks, toolbar, completed, nres, creq, sunk, interrupt_action, dvars, wvars, fvars>>

\* the sample's unit: started, it may run steps before and after it binds
\* its own Transcript
NextStep ==
    \/ Spawn("sample")
    \/ InitTranscript("sample")
    \/ \E in \in StepInputs : StepEnter("sample", in)
    \/ \E k \in Keys, v \in Vals \cup {Absent} : StoreSet("sample", k, v)
    \/ \E k \in Keys, v \in Vals \cup {Absent} : StateSet(k, v)
    \/ StepExit("sample")
    \/ \E how \in {"error", "cancel"} : StepRaise("sample", how)

SpecStep == Init /\ [][NextStep]_vars

\* the sample's unit also records info events, inside and outside its scopes
NextLog ==
    \/ NextStep
    \/ Info("sample", "d1")

SpecLog == Init /\ [][NextLog]_vars

\* the sample, bound to its transcript, runs step scopes inside step scopes
NextNested ==
    \/ StartSample
    \/ \E in \in StepInputs : StepEnter("sample", in)
    \/ \E in \in StepInputs : StepEnterInner("sample", in)
    \/ \E k \in Keys : StoreSetFresh("sample", k)
    \/ Info("sample", "d1")
    \/ StepExit("sample")

SpecNested == Init /\ [][NextNested]_vars

\* the value that a unit writes: the sample v1, the units it starts v2
OwnVal(u) == IF u = "sample" THEN "v1" ELSE "v2"

\* the sample runs a step scope while two units it started are at work: the
\* first keeps the context it was started with, and with it the store of
\* the sample; the second binds a transcript and a store of its own
NextShare ==
    \/ StartSample
    \/ Spawn("sub1")
    \/ Spawn("sub2")
    \/ InitTranscript("sub2")
    \/ \E in \in StepInputs : StepEnter("sample", in)
    \/ \E u \in {"sample", "sub1", "sub2"}, k \in Keys : StoreWrite(u, k, OwnVal(u))
    \/ StepExit("sample")

SpecShare == Init /\ [][NextShare]_vars

-----------------------------------------------------------------------------
(* Tool calls of the sample: the caller's flow around a ToolEvent *)

SampleEvents == events["t_sample"]

ToolSlots == {i \in 1..Len(SampleEvents) : IsTool(SampleEvents[i])}

\* the caller creates the pending event and appends it to the transcript
ToolCreate ==
    /\ InSample
    /\ Len(SampleEvents) < MaxEvents
    /\ Cardinality(ToolSlots) < MaxTools
    /\ events' = [events EXCEPT
           !["t_sample"] = AppendEvent(@, ToolEvent(CallSeq[Len(@) + 1], True))]
    /\ UNCHANGED <<ctx, ustate, frames, store, tstate, tasks, toolbar, completed, nres, creq, sunk, last, interrupt_action, dvars, wvars, fvars>>

\* the caller starts the backing task and attaches it: event._set_task(task)
ToolSetTask(i) ==
    /\ InSample
    /\ i \in ToolSlots
    /\ SampleEvents[i].pending = True
    /\ SampleEvents[i].task = None
    /\ tasks[TaskSeq[i]] = "none"
    /\ tasks' = [tasks EXCEPT ![TaskSeq[i]] = "running"]
    /\ events' = [events EXCEPT !["t_sample"][i] = set_task(@, TaskSeq[i])]
    /\ UNCHANGED <<ctx, ustate, frames, store, tstate, toolbar, completed, nres, creq, sunk, last, interrupt_action, dvars, wvars, fvars>>

\* the tool's task runs to its end
TaskFinish(k) ==
    /\ tasks[k] = "running"
    /\ tasks' = [tasks EXCEPT ![k] = "done"]
    /\ UNCHANGED <<events, ctx, ustate, frames, store, tstate, toolbar, completed, nres, creq, sunk, last, interrupt_action, dvars, wvars, fvars>>

\* a task whose cancellation was requested unwinds
TaskUnwind(k) ==
    /\ tasks[k] = "cancelling"
    /\ tasks' = [tasks EXCEPT ![k] = "cancelled"]
    /\ UNCHANGED <<events, ctx, ustate, frames, store, tstate, toolbar, completed, nres, creq, sunk, last, interrupt_action, dvars, wvars, fvars>>

\* the caller, its await of the task over, resolves the event
ToolResolve(i, o) ==
    /\ InSample
    /\ i \in ToolSlots
    /\ SampleEvents[i].pending = True
    /\ nres[i] = 0
    /\ SampleEvents[i].task # None
    /\ tasks[SampleEvents[i].task] \in {"done", "cancelled"}
    /\ events' = [events EXCEPT !["t_sample"][i] =
                      set_result(@, o.result, o.truncated, o.error, o.events)]
    /\ nres' = [nres EXCEPT ![i] = @ + 1]
    /\ UNCHANGED <<ctx, ustate, frames, store, tstate, tasks, toolbar, completed, creq, sunk, last, interrupt_action, dvars, wvars, fvars>>

\* a second call of _set_result, on an event that was resolved before
ToolResolveAgain(i, o) ==
    /\ i \in ToolSlots
    /\ nres[i] = 1
    /\ events' = [events EXCEPT !["t_sample"][i] =
                      set_result(@, o.result, o.truncated, o.error, o.events)]
    /\ nres' = [nres EXCEPT ![i] = @ + 1]
    /\ UNCHANGED <<ctx, ustate, frames, store, tstate, tasks, toolbar, completed, creq, sunk, last, interrupt_action, dvars, wvars, fvars>>

\* the situation of a pending event when _cancel is called on it
CancelCase(e) ==
    IF e.pending # True THEN {}
    ELSE IF e.task = None THEN {"no_task"} ELSE {"task"}

\* event._cancel() on the event in slot i of the sample transcript
CancelSlot(i) ==
    /\ creq' = [creq EXCEPT ![i] = @ \cup CancelCase(SampleEvents[i])]
    /\ events' = [events EXCEPT !["t_sample"][i] = cancel(@)]
    /\ tasks' = IF cancel_requests(SampleEvents[i])
                 THEN [tasks EXCEPT ![SampleEvents[i].task] = task_cancel(@)]
                 ELSE tasks

\* the sample finishes once its tool calls are resolved
SampleComplete ==
    /\ InSample
    /\ \A i \in ToolSlots : SampleEvents[i].pending # True
    /\ completed' = TRUE
    /\ ustate' = [ustate EXCEPT !["sample"] = "done"]
    /\ UNCHANGED <<events, ctx, frames, store, tstate, tasks, toolbar, nres, creq, sunk, last, interrupt_action, dvars, wvars, fvars>>

-----------------------------------------------------------------------------
(* The sample toolbar *)

\* the tail event read by the toolbar: transcript.events[-1], or None
HasLast == Len(SampleEvents) > 0

SyncSampleTimeoutForAnyPending(tb, sample) ==
    IF sample # None /\ ~completed
    THEN IF HasLast /\ Last(SampleEvents).pending = True
         THEN [sample |-> sample, display |-> TRUE, pending_status |-> TRUE,
               timeout_tool |-> TRUE, clock |-> TRUE]
         ELSE [sample |-> sample, display |-> TRUE, pending_status |-> FALSE,
               timeout_tool |-> FALSE, clock |-> FALSE]
    ELSE [sample |-> sample, display |-> FALSE, pending_status |-> FALSE,
          timeout_tool |-> FALSE, clock |-> FALSE]

\* SampleToolbar.sync_sample(sample)
sync_sample(tb, sample) ==
    IF sample # None /\ ~completed
    THEN IF HasLast /\ Last(SampleEvents).pending = True
         THEN [sample |-> sample, display |-> TRUE, pending_status |-> TRUE,
               timeout_tool |-> IsTool(Last(SampleEvents)), clock |-> TRUE]
         ELSE [sample |-> sample, display |-> TRUE, pending_status |-> FALSE,
               timeout_tool |-> FALSE, clock |-> FALSE]
    ELSE [sample |-> sample, display |-> FALSE, pending_status |-> FALSE,
          timeout_tool |-> FALSE, clock |-> FALSE]

SyncSample(sample) ==
    /\ sample # None => ustate["sample"] # "idle"
    /\ toolbar' = sync_sample(toolbar, sample)
    /\ UNCHANGED <<events, ctx, ustate, frames, store, tstate, tasks, completed, nres, creq, sunk, last, interrupt_action, dvars, wvars, fvars>>

\* SampleToolbar.on_button_pressed for the Timeout Tool button: whether it
\* calls last_event._cancel()
timeout_tool_cancels(tb) ==
    tb.sample # None /\ HasLast /\ IsTool(Last(SampleEvents))

\* the operator presses the Timeout Tool button, which is on display
PressTimeoutTool ==
    /\ toolbar.display /\ toolbar.timeout_tool
    /\ IF timeout_tool_cancels(toolbar)
       THEN CancelSlot(Len(SampleEvents))
       ELSE UNCHANGED <<events, tasks, creq>>
    /\ UNCHANGED <<ctx, ustate, frames, store, tstate, toolbar, completed, nres, sunk, last, interrupt_action, dvars, wvars, fvars>>

-----------------------------------------------------------------------------
(* The tool-call lifecycle with operator cancellation *)

NextTool ==
    \/ StartSample
    \/ Info("sample", "d1")
    \/ ToolCreate
    \/ \E i \in Slots : ToolSetTask(i)
    \/ \E k \in TaskIds : TaskFinish(k)
    \/ \E k \in TaskIds : TaskUnwind(k)
    \/ \E i \in Slots, o \in Outcomes : ToolResolve(i, o)
    \/ \E i \in Slots, o \in Outcomes : ToolResolveAgain(i, o)
    \/ SampleComplete
    \/ \E s \in {None, "s"} : SyncSample(s)
    \/ PressTimeoutTool

SpecTool == Init /\ [][NextTool]_vars

\* the sample records info events and runs step scopes while its tool calls
\* are created, cancelled and resolved, with a result or with an error
NextEvents ==
    \/ StartSample
    \/ Info("sample", "d1")
    \/ StepEnter("sample", [name |-> "plan", type |-> None])
    \/ \E k \in Keys : StoreSetFresh("sample", k)
    \/ StepExit("sample")
    \/ ToolCreate
    \/ \E i \in Slots : ToolSetTask(i)
    \/ \E k \in TaskIds : TaskFinish(k)
    \/ \E k \in TaskIds : TaskUnwind(k)
    \/ \E i \in Slots, o \in {x \in Outcomes : x.result # "ok"} : ToolResolve(i, o)
    \/ SyncSample("s")
    \/ PressTimeoutTool

SpecEvents == Init /\ [][NextEvents]_vars

\* the cooperative scheduler does not leave runnable work waiting forever:
\* the caller attaches the task it started, a started task reaches its end
\* or unwinds, and the caller goes on past its await
FairSpecTool ==
    /\ SpecTool
    /\ \A i \in Slots : WF_vars(ToolSetTask(i))
    /\ \A k \in TaskIds : WF_vars(TaskFinish(k)) /\ WF_vars(TaskUnwind(k))
    /\ \A i \in Slots : WF_vars(\E o \in Outcomes : ToolResolve(i, o))

-----------------------------------------------------------------------------
(* The lifecycle of a sample: init, a model call, a tool call, and the      *)
(* operator's interrupt                                                     *)

SampleInitEvent == [event |-> "sample_init", pending |-> None]

\* ModelEvent(..., pending=pending)
ModelEvent(pending) ==
    [event |-> "model", pending |-> pending, output |-> "", error |-> None]

ErrorEvent == [event |-> "error", pending |-> None]

ScoreEvent == [event |-> "score", pending |-> None]

\* the lifecycle state of the sample
SampleState ==
    IF completed THEN "completed"
    ELSE IF interrupt_action # None THEN "cancelling" ELSE "running"

AnyPending == \E i \in 1..Len(SampleEvents) : SampleEvents[i].pending = True

\* the sample records its sample-init event first
RecordSampleInit ==
    /\ InSample /\ ~completed
    /\ SampleEvents = <<>>
    /\ events' = [events EXCEPT !["t_sample"] = AppendEvent(@, SampleInitEvent)]
    /\ UNCHANGED <<ctx, ustate, frames, store, tstate, tasks, toolbar, completed, nres, creq, sunk, last, interrupt_action, dvars, wvars, fvars>>

\* the sample calls the model: a pending model event, the call in flight
ModelCreate ==
    /\ InSample /\ ~completed /\ interrupt_action = None
    /\ Len(SampleEvents) = 1
    /\ events' = [events EXCEPT !["t_sample"] = AppendEvent(@, ModelEvent(True))]
    /\ tasks' = [tasks EXCEPT ![TaskSeq[2]] = "running"]
    /\ UNCHANGED <<ctx, ustate, frames, store, tstate, toolbar, completed, nres, creq, sunk, last, interrupt_action, dvars, wvars, fvars>>

\* the model call is over: the event gets its output and is no longer pending
ModelResolve ==
    /\ InSample
    /\ Len(SampleEvents) >= 2
    /\ SampleEvents[2].event = "model" /\ SampleEvents[2].pending = True
    /\ tasks[TaskSeq[2]] \in {"done", "cancelled"}
    /\ events' = [events EXCEPT !["t_sample"][2] =
                      [@ EXCEPT !.pending = None,
                                !.output = IF tasks[TaskSeq[2]] = "done"
                                           THEN "out" ELSE "",
                                !.error = IF tasks[TaskSeq[2]] = "done"
                                          THEN None ELSE "cancelled"]]
    /\ UNCHANGED <<ctx, ustate, frames, store, tstate, tasks, toolbar, completed, nres, creq, sunk, last, interrupt_action, dvars, wvars, fvars>>

\* the sample calls the tool the model asked for: a pending tool event
ToolCreateAfterModel ==
    /\ InSample /\ ~completed /\ interrupt_action = None
    /\ Len(SampleEvents) = 2
    /\ SampleEvents[2].pending = None
    /\ events' = [events EXCEPT
           !["t_sample"] = AppendEvent(@, ToolEvent(CallSeq[Len(@) + 1], True))]
    /\ UNCHANGED <<ctx, ustate, frames, store, tstate, tasks, toolbar, completed, nres, creq, sunk, last, interrupt_action, dvars, wvars, fvars>>

\* ActiveSample.interrupt(mode): nothing for a completed sample; otherwise
\* the mode is kept and cancellation of the unit of work behind a pending
\* tail event is requested
InterruptAlsoCompleted(mode) ==
    /\ interrupt_action' = mode
    /\ UNCHANGED <<events, tasks, creq>>

Interrupt(mode) ==
    IF completed THEN UNCHANGED <<interrupt_action, events, tasks, creq>>
    ELSE /\ interrupt_action' = mode
         /\ IF HasLast /\ Last(SampleEvents).pending = True
            THEN IF IsTool(Last(SampleEvents))
                 THEN CancelSlot(Len(SampleEvents))
                 ELSE /\ tasks' = [tasks EXCEPT ![TaskSeq[Len(SampleEvents)]] =
                                       task_cancel(@)]
                      /\ UNCHANGED <<events, creq>>
            ELSE UNCHANGED <<events, tasks, creq>>

\* SampleToolbar.on_button_pressed: the mode a cancel button asks for
ButtonModeSwapped(button) ==
    IF button = "cancel_score_output" THEN "error" ELSE "score"

button_mode(button) ==
    IF button = "cancel_score_output" THEN "score" ELSE "error"

\* the operator presses Cancel (Score) or Cancel (Error), which is on display
PressCancel(button) ==
    /\ toolbar.display /\ toolbar.sample # None
    /\ Interrupt(button_mode(button))
    /\ last' = Op(button, "sample")
    /\ UNCHANGED <<ctx, ustate, frames, store, tstate, toolbar, completed, nres, sunk, dvars, wvars, fvars>>

\* the sample ends once nothing is pending: after an interrupt with the
\* outcome the mode asks for (an error raised, or scored on the output so
\* far), without interrupt by being scored after its tool call
SampleFinish ==
    /\ InSample /\ ~completed
    /\ HasLast /\ ~AnyPending
    /\ interrupt_action # None \/ Len(SampleEvents) = 3
    /\ events' = [events EXCEPT !["t_sample"] =
                      AppendEvent(@, IF interrupt_action = "error"
                                     THEN ErrorEvent ELSE ScoreEvent)]
    /\ completed' = TRUE
    /\ ustate' = [ustate EXCEPT !["sample"] = "done"]
    /\ UNCHANGED <<ctx, frames, store, tstate, tasks, toolbar, nres, creq, sunk, last, interrupt_action, dvars, wvars, fvars>>

NextSample ==
    \/ StartSample
    \/ RecordSampleInit
    \/ ModelCreate
    \/ ModelResolve
    \/ ToolCreateAfterModel
    \/ \E i \in AllSlots : ToolSetTask(i)
    \/ \E k \in AllTaskIds : TaskFinish(k)
    \/ \E k \in AllTaskIds : TaskUnwind(k)
    \/ \E i \in AllSlots, o \in Outcomes : ToolResolve(i, o)
    \/ \E s \in {None, "s"} : SyncSample(s)
    \/ \E b \in {"cancel_score_output", "cancel_raise_error"} : PressCancel(b)
    \/ SampleFinish

SpecSample == Init /\ [][NextSample]_vars

-----------------------------------------------------------------------------
(* Child units of work and the nested events of their parent's event *)

\* SubtaskEvent(name=..., events=evs)
SubtaskEvent(name, evs) ==
    [event |-> "subtask", pending |-> None, name |-> name, events |-> evs]

\* the unit of work that runs a tool call, and the one that runs a subtask
ToolUnit == "sub1"

SubtaskUnit == "sub2"

\* the data a unit gives to info(): each unit records data of its own, so
\* that equal info events are one event
OwnData(u) ==
    CASE u = "sample" -> "d1"
      [] u = ToolUnit -> "d2"
      [] u = SubtaskUnit -> "d3"

\* what the parent embeds in its event for child unit u: the events of the
\* child's Transcript
NestedOfParent(u) == events[transcript(Parent(u))]

nested_events(u) == events[OwnTranscript(u)]

\* the caller starts the tool's unit of work: the task runs in a copy of the
\* caller's context, binds its own Transcript, and is attached to the event
ToolStart(i) ==
    /\ InSample
    /\ i \in ToolSlots
    /\ SampleEvents[i].pending = True
    /\ SampleEvents[i].task = None
    /\ tasks[TaskSeq[i]] = "none"
    /\ ustate[ToolUnit] = "idle"
    /\ tasks' = [tasks EXCEPT ![TaskSeq[i]] = "running"]
    /\ events' = [events EXCEPT !["t_sample"][i] = set_task(@, TaskSeq[i])]
    /\ ustate' = [ustate EXCEPT ![ToolUnit] = "running"]
    /\ ctx' = init_transcript([ctx EXCEPT ![ToolUnit] = ctx["sample"]],
                              ToolUnit, OwnTranscript(ToolUnit))
    /\ UNCHANGED <<frames, store, tstate, toolbar, completed, nres, creq, sunk, last, interrupt_action, dvars, wvars, fvars>>

\* the tool's unit of work ends: its task runs to its end, or unwinds after
\* a cancel request
ToolEnd(i) ==
    /\ i \in ToolSlots
    /\ SampleEvents[i].task # None
    /\ tasks[SampleEvents[i].task] \in {"running", "cancelling"}
    /\ ustate[ToolUnit] = "running"
    /\ tasks' = [tasks EXCEPT ![SampleEvents[i].task] =
                     IF @ = "running" THEN "done" ELSE "cancelled"]
    /\ ustate' = [ustate EXCEPT ![ToolUnit] = "done"]
    /\ UNCHANGED <<events, ctx, frames, store, tstate, toolbar, completed, nres, creq, sunk, last, interrupt_action, dvars, wvars, fvars>>

\* the caller, its await of the task over, resolves the event with the
\* events of the tool's Transcript
ToolResolveNested(i) ==
    /\ InSample
    /\ i \in ToolSlots
    /\ SampleEvents[i].pending = True
    /\ nres[i] = 0
    /\ SampleEvents[i].task # None
    /\ tasks[SampleEvents[i].task] \in {"done", "cancelled"}
    /\ events' = [events EXCEPT !["t_sample"][i] =
                      set_result(@, "ok", <<>>, None, nested_events(ToolUnit))]
    /\ nres' = [nres EXCEPT ![i] = @ + 1]
    /\ UNCHANGED <<ctx, ustate, frames, store, tstate, tasks, toolbar, completed, creq, sunk, last, interrupt_action, dvars, wvars, fvars>>

\* the sample starts a subtask: it runs in a copy of the caller's context
\* and binds its own Transcript
SubtaskStart ==
    /\ InSample
    /\ ustate[SubtaskUnit] = "idle"
    /\ ustate' = [ustate EXCEPT ![SubtaskUnit] = "running"]
    /\ ctx' = init_transcript([ctx EXCEPT ![SubtaskUnit] = ctx["sample"]],
                              SubtaskUnit, OwnTranscript(SubtaskUnit))
    /\ UNCHANGED <<events, frames, store, tstate, tasks, toolbar, completed, nres, creq, sunk, last, interrupt_action, dvars, wvars, fvars>>

\* the subtask returns and the sample records it: a SubtaskEvent holding the
\* events of the subtask's Transcript
SubtaskRecord ==
    /\ InSample
    /\ ustate[SubtaskUnit] = "running"
    /\ TotalEvents(Transcripts) < MaxEvents
    /\ ustate' = [ustate EXCEPT ![SubtaskUnit] = "done"]
    /\ events' = [events EXCEPT !["t_sample"] =
                      AppendEvent(@, SubtaskEvent("sub", nested_events(SubtaskUnit)))]
    /\ UNCHANGED <<ctx, frames, store, tstate, tasks, toolbar, completed, nres, creq, sunk, last, interrupt_action, dvars, wvars, fvars>>

NextNest ==
    \/ StartSample
    \/ \E u \in {"sample", ToolUnit, SubtaskUnit} : Info(u, OwnData(u))
    \/ ToolCreate
    \/ \E i \in Slots : ToolStart(i)
    \/ \E i \in Slots : ToolEnd(i)
    \/ \E i \in Slots : ToolResolveNested(i)
    \/ SubtaskStart
    \/ SubtaskRecord
    \/ \E s \in {None, "s"} : SyncSample(s)
    \/ PressTimeoutTool

SpecNest == Init /\ [][NextNest]_vars

-----------------------------------------------------------------------------
(* Properties of the tool-call lifecycle (SpecTool, FairSpecTool) *)

Pending(i) ==
    Len(SampleEvents) >= i /\ IsTool(SampleEvents[i]) /\ SampleEvents[i].pending = True

\* C2: a tool-call event is pending from its creation until _set_result is
\* called on it, and its pending flag is cleared once _set_result was called.
C2_PendingUntilResolved ==
    \A i \in ToolSlots :
        /\ nres[i] = 0 => SampleEvents[i].pending = True
        /\ nres[i] >= 1 => SampleEvents[i].pending = None

C2_Witness ==
    \E i \in ToolSlots : nres[i] = 1 /\ SampleEvents[i].pending = None

\* C3: a second _set_result call on a resolved event is rejected or a no-op:
\* result, truncated, error and the nested events of a resolved event keep the
\* values of the first resolution.
C3_SecondResolutionKeepsFirst ==
    [][\A i \in ToolSlots :
          nres[i] >= 1 =>
              /\ events'["t_sample"][i].result = SampleEvents[i].result
              /\ events'["t_sample"][i].truncated = SampleEvents[i].truncated
              /\ events'["t_sample"][i].error = SampleEvents[i].error
              /\ events'["t_sample"][i].events = SampleEvents[i].events]_vars

C5_CancelResolvedIsNoOp ==
    [][\A i \in ToolSlots :
          SampleEvents[i].pending # True =>
              /\ events'["t_sample"][i].cancelled = SampleEvents[i].cancelled
              /\ SampleEvents[i].task # None =>
                     tasks'[SampleEvents[i].task] = tasks[SampleEvents[i].task]]_vars

\* C6: every pending tool-call event is eventually resolved, cancelled or not.
C6_PendingEventuallyResolved ==
    \A i \in Slots : Pending(i) ~> ~Pending(i)

C6_Witness ==
    \E i \in ToolSlots :
        /\ "task" \in creq[i]
        /\ tasks[SampleEvents[i].task] = "cancelled"
        /\ SampleEvents[i].pending = None

-----------------------------------------------------------------------------
(* Properties of the transcript binding (SpecCtx) *)

\* C7: a rebind made inside one unit of work is invisible to every other unit:
\* transcript() of the parent and of the siblings is what it was before.
C7_RebindInvisibleToOthers ==
    [][\A u \in Units :
          last'.op = "init_transcript" /\ last'.unit = u =>
              \A v \in Units \ {u} :
                  (IF ctx'[v] = None THEN DefaultTranscript ELSE ctx'[v])
                      = transcript(v)]_vars

C7_Witness ==
    /\ last = Op("init_transcript", "sub1")
    /\ transcript("sub1") = "t_sub1"
    /\ ustate["sample"] = "running" /\ transcript("sample") = "t_sample"
    /\ ustate["sub2"] = "running" /\ transcript("sub2") = "t_sample"

\* C8 as stated: in a context without binding transcript() is the default
\* Transcript, and that transcript is empty.
C8_DefaultIsEmpty ==
    \A u \in Units :
        ctx[u] = None =>
            transcript(u) = DefaultTranscript /\ events[DefaultTranscript] = <<>>

\* C8 amended: in a context without binding transcript() is the default
\* Transcript; it is empty until something is recorded through such a context
\* and holds exactly what was recorded through such contexts, in order.
C8_DefaultHoldsUnboundRecords ==
    /\ \A u \in Units : ctx[u] = None => transcript(u) = DefaultTranscript
    /\ events[DefaultTranscript] = [i \in 1..Len(sunk) |-> InfoEvent(sunk[i])]

C8_Witness ==
    /\ ctx["main"] = None
    /\ last = Op("info", "main")
    /\ Len(events[DefaultTranscript]) = 2
    /\ sunk # <<>>

-----------------------------------------------------------------------------
(* Properties of step scopes and change tracking (SpecStep) *)

\* the number of step events of one action and input in a sequence of events
StepCount(evs, action, in) ==
    Cardinality({i \in 1..Len(evs) : evs[i] = StepEvent(action, in.name, in.type)})

\* the number of scopes step(in.name, in.type) of transcript t that are open
OpenScopes(t, in) ==
    Cardinality({p \in Units \X (1..MaxSteps) :
                    /\ p[2] <= Len(frames[p[1]])
                    /\ frames[p[1]][p[2]].self = t
                    /\ frames[p[1]][p[2]].name = in.name
                    /\ frames[p[1]][p[2]].type = in.type})

\* the events that the step appends to transcript t
NewEvents(t) == SubSeq(events'[t], Len(events[t]) + 1, Len(events'[t]))

CountOf(evs, kind) == Cardinality({i \in 1..Len(evs) : evs[i].event = kind})

\* C1: every step(name, type) scope has exactly one begin event and, once it
\* is left (normally, by an error or by cancellation), exactly one matching
\* end event after it: in each transcript the begin events of a name and
\* type are the end events plus the scopes still open, and no prefix holds
\* more end than begin events.
C1_StepBeginEndPaired ==
    \A t \in Transcripts, in \in StepInputs :
        /\ StepCount(events[t], "begin", in)
               = StepCount(events[t], "end", in) + OpenScopes(t, in)
        /\ \A j \in 1..Len(events[t]) :
               StepCount(SubSeq(events[t], 1, j), "end", in)
                   <= StepCount(SubSeq(events[t], 1, j), "begin", in)

\* C9: when the store tracking of a scope compares its two snapshots, it
\* appends no store event if they are equal, and otherwise exactly one store
\* event, whose change list is not empty.
C9_StoreEventIffChanged ==
    [][\A u \in Units :
          last'.op = "step_exit" /\ last'.unit = u =>
              LET f == Last(frames[u])
                  new == NewEvents(transcript(u))
              IN IF ambient_store(u) = f.before_store
                 THEN CountOf(new, "store") = 0
                 ELSE /\ CountOf(new, "store") = 1
                      /\ \A i \in 1..Len(new) :
                             new[i].event = "store" => new[i].changes # <<>>]_vars

C9_Witness ==
    /\ last = Op("step_exit", "sample")
    /\ \E i \in 1..Len(events["t_sample"]) :
           /\ events["t_sample"][i].event = "store"
           /\ events["t_sample"][i].changes
                  = <<[op |-> "add", path |-> <<"x">>, value |-> "v1"]>>

\* C10: whenever a step scope is left, normally, by an error or by
\* cancellation, a change of the ambient store made inside it is recorded by a
\* store event, and for a tracked scope of the sample a change of the task
\* state is recorded by a state event.
C10_ChangesRecordedOnEveryExit ==
    [][\A u \in Units :
          Len(frames'[u]) < Len(frames[u]) =>
              LET f == Last(frames[u])
                  new == NewEvents(transcript(u))
              IN /\ ambient_store(u) # f.before_store => CountOf(new, "store") >= 1
                 /\ (f.engaged /\ tstate # f.before_state) =>
                        CountOf(new, "state") >= 1]_vars

\* the state events that the step appends, over all transcripts
RECURSIVE NewStateEvents(_)
NewStateEvents(ts) ==
    IF ts = {} THEN 0
    ELSE LET t == CHOOSE x \in ts : TRUE
         IN CountOf(NewEvents(t), "state") + NewStateEvents(ts \ {t})

\* C11: state tracking is engaged for a step scope exactly when the scope's
\* transcript is named by the sample sentinel and the type is not "solver":
\* an engaged scope that returns appends one state event iff the task state
\* differs from its value at entry, and every other scope appends no state
\* event, whatever the task state underwent.
C11_StateTrackedIffSampleNonSolver ==
    [][\A u \in Units :
          last'.op = "step_exit" /\ last'.unit = u =>
              LET f == Last(frames[u])
              IN IF TranscriptName(f.self) = SAMPLE_SUBTASK /\ f.type # "solver"
                 THEN NewStateEvents(Transcripts)
                          = IF tstate = f.before_state THEN 0 ELSE 1
                 ELSE NewStateEvents(Transcripts) = 0]_vars

\* a solver scope of the sample returned after the task state changed in it
C11_Witness ==
    /\ last = Op("step_exit", "sample")
    /\ tstate # EmptyMap
    /\ events["t_sample"] = <<StepEvent("begin", "generate", "solver"),
                              StepEvent("end", "generate", "solver")>>

\* C12: the event sequence of a transcript only grows at its tail: across
\* every info, step entry, step exit and change tracking, the sequence before
\* the operation is a prefix of the sequence after it.
C12_AppendOnly ==
    [][\A t \in Transcripts :
          /\ Len(events'[t]) >= Len(events[t])
          /\ SubSeq(events'[t], 1, Len(events[t])) = events[t]]_vars

\* an info event, then a scope that recorded a store change
C12_Witness ==
    /\ last = Op("step_exit", "sample")
    /\ Len(events["t_sample"]) = 4
    /\ events["t_sample"][1].event = "info"
    /\ events["t_sample"][3].event = "store"

-----------------------------------------------------------------------------
(* Further properties of the tool-call lifecycle (SpecTool) *)

\* C13: only the resolution call takes the pending flag of a tool-call event
\* from true to cleared: a step in which a pending event stops being pending
\* is a call of _set_result on that event; _set_task, _cancel and the append
\* of other events leave the flag as it is.
C13_OnlyResolutionClearsPending ==
    [][\A i \in ToolSlots :
          (SampleEvents[i].pending = True /\ events'["t_sample"][i].pending # True)
              => nres'[i] = nres[i] + 1]_vars

\* a pending event after _set_task, _cancel and the append of an info event
C13_Witness ==
    /\ Len(SampleEvents) = 2
    /\ IsTool(SampleEvents[1]) /\ SampleEvents[1].pending = True
    /\ SampleEvents[1].task # None /\ cancelled(SampleEvents[1])
    /\ SampleEvents[2].event = "info"
    /\ nres[1] = 0

-----------------------------------------------------------------------------
(* Change detection as a function of two snapshots *)

\* any two snapshots
InitDiff ==
    /\ InitProgram
    /\ snapA \in Snapshots
    /\ snapB \in Snapshots
    /\ delta = <<>>
    /\ patched = <<>>
    /\ InitWidgets
    /\ InitCall

pvars == <<events, ctx, ustate, frames, store, tstate, tasks, toolbar, completed,
           nres, creq, sunk, last, interrupt_action>>

\* the diff of snapA to snapB is computed
ComputeChanges ==
    /\ delta = <<>>
    /\ delta' = <<diff(snapA, snapB, <<>>)>>
    /\ UNCHANGED <<pvars, snapA, snapB, patched, wvars, fvars>>

\* the change records are applied, in order, to snapA
ApplyChanges ==
    /\ delta # <<>>
    /\ patched = <<>>
    /\ patched' = <<apply_changes(snapA, delta[1], 1)>>
    /\ UNCHANGED <<pvars, snapA, snapB, delta, wvars, fvars>>

NextDiff ==
    \/ ComputeChanges
    \/ ApplyChanges

SpecDiff == InitDiff /\ [][NextDiff]_vars

C20_DiffOnlyWhereDifferent ==
    delta # <<>> =>
        /\ snapA = snapB => delta[1] = <<>>
        /\ \A j \in 1..Len(delta[1]) :
               LET va == value_at(snapA, delta[1][j].path, 1)
                   vb == value_at(snapB, delta[1][j].path, 1)
               IN /\ va # vb
                  /\ ~(va.kind = "map" /\ vb.kind = "map")
                  /\ ~(va.kind = "seq" /\ vb.kind = "seq")

\* one key changed deep inside, its sibling subtree is the same in both
C20_Witness ==
    /\ delta # <<>>
    /\ snapA.kids[1] = MapOf(<<Scalar("a"), Scalar("b")>>)
    /\ snapB.kids[1] = MapOf(<<Scalar("a"), Scalar("a")>>)
    /\ snapA.kids[2] = snapB.kids[2] /\ snapA.kids[2] # NoTree
    /\ delta[1] = <<[op |-> "replace", path |-> <<"x", "y">>, value |-> Scalar("a")]>>

-----------------------------------------------------------------------------
(* Properties of nested events (SpecNest) *)

\* the events of a sequence that hold nested events
Parents(evs) == {i \in 1..Len(evs) : evs[i].event \in {"tool", "subtask"}}

\* C14: the nested events of a tool-call event are empty until the resolution
\* call, which comes after the tool's unit of work has ended and hands over
\* the full event list of the tool's transcript; a subtask event is recorded
\* after the subtask has ended, with the full list of the subtask's
\* transcript. No shorter list is ever seen through the parent's event.
C14_NestedOnlyAfterChildEnded ==
    /\ \A i \in ToolSlots :
           /\ nres[i] = 0 => SampleEvents[i].events = <<>>
           /\ nres[i] >= 1 =>
                  /\ ustate[ToolUnit] = "done"
                  /\ SampleEvents[i].events = events[OwnTranscript(ToolUnit)]
    /\ \A i \in 1..Len(SampleEvents) :
           SampleEvents[i].event = "subtask" =>
               /\ ustate[SubtaskUnit] = "done"
               /\ SampleEvents[i].events = events[OwnTranscript(SubtaskUnit)]

\* a cancelled tool call that had recorded an event, resolved
C14_Witness ==
    \E i \in ToolSlots :
        /\ nres[i] = 1
        /\ tasks[SampleEvents[i].task] = "cancelled"
        /\ SampleEvents[i].events = <<InfoEvent("d2")>>

-----------------------------------------------------------------------------
(* Properties of the sample lifecycle (SpecSample) *)

TaskBehind(n) ==
    IF IsTool(SampleEvents[n]) THEN SampleEvents[n].task ELSE TaskSeq[n]

-----------------------------------------------------------------------------
(* The list of samples of the samples view *)

MaxTime == 1

\* the lists of active samples: no sample twice
RECURSIVE ListsOf(_)
ListsOf(ids) ==
    {<<>>} \cup UNION {{<<x>> \o l : l \in ListsOf(ids \ {x})} : x \in ids}

Range(seq) == {seq[i] : i \in 1..Len(seq)}

\* sample_index_for_id(samples, id): the first index, from 0, or -1
sample_index_for_id(samples, id) ==
    IF \E i \in 1..Len(samples) : samples[i] = id
    THEN (CHOOSE i \in 1..Len(samples) :
              /\ samples[i] = id
              /\ \A j \in 1..(i - 1) : samples[j] # id) - 1
    ELSE -1

\* sample_for_id(samples, id)
sample_for_id(samples, id) ==
    IF sample_index_for_id(samples, id) # -1
    THEN samples[sample_index_for_id(samples, id) + 1]
    ELSE None

\* list.sort(key=execution_time, reverse=True): a stable sort, longest first
RECURSIVE sort_by_time(_, _)
sort_by_time(seq, time) ==
    IF seq = <<>> THEN <<>>
    ELSE LET x == Last(seq)
             sorted == sort_by_time(SubSeq(seq, 1, Len(seq) - 1), time)
             k == Cardinality({i \in 1..Len(sorted) : time[sorted[i]] >= time[x]})
         IN SubSeq(sorted, 1, k) \o <<x>> \o SubSeq(sorted, k + 1, Len(sorted))

\* the id of the option at the highlighted index, or None
highlighted_id == IF highlighted # NoHighlight THEN slist[highlighted + 1] ELSE None

\* the new samples, and the highlighted sample if it is no longer among them
KeptSamplesDropsHighlighted(new, highlighted_sample) == new

kept_samples(new, highlighted_sample) ==
    IF highlighted_sample # None /\ highlighted_sample \notin Range(new)
    THEN Append(new, highlighted_sample)
    ELSE new

\* the samples of the list after set_samples(new)
new_samples(new) ==
    sort_by_time(
        kept_samples(new, IF highlighted_id # None
                          THEN sample_for_id(slist, highlighted_id) ELSE None),
        exec_time)

\* SamplesList.set_samples(new): the list and its highlight
ListUpdate(new) ==
    /\ slist' = new_samples(new)
    /\ highlighted' =
           IF Len(new_samples(new)) > 0
           THEN IF highlighted_id # None
                THEN sample_index_for_id(new_samples(new), highlighted_id)
                ELSE 0
           ELSE NoHighlight

\* SamplesList.set_samples(new)
ListSetSamples(new) ==
    /\ ListUpdate(new)
    /\ call_arg' = new
    /\ last' = Op("set_samples", "main")
    /\ UNCHANGED <<events, ctx, ustate, frames, store, tstate, tasks, toolbar, completed, nres, creq, sunk, interrupt_action, dvars>>
    /\ UNCHANGED <<exec_time, now, last_updated, count, fwd, elapsed, call_result, call_again>>

\* the operator moves the highlight to another option of the list
Highlight(i) ==
    /\ i \in 0..(Len(slist) - 1)
    /\ i # highlighted
    /\ highlighted' = i
    /\ last' = Op("highlight", "main")
    /\ UNCHANGED <<events, ctx, ustate, frames, store, tstate, tasks, toolbar, completed, nres, creq, sunk, interrupt_action, dvars, fvars>>
    /\ UNCHANGED <<slist, exec_time, now, last_updated, count, fwd, elapsed>>

\* a sample runs on: its execution time grows
Advance(x) ==
    /\ exec_time[x] < MaxTime
    /\ exec_time' = [exec_time EXCEPT ![x] = @ + 1]
    /\ last' = Op("advance", "main")
    /\ UNCHANGED <<events, ctx, ustate, frames, store, tstate, tasks, toolbar, completed, nres, creq, sunk, interrupt_action, dvars, fvars>>
    /\ UNCHANGED <<slist, highlighted, now, last_updated, count, fwd, elapsed>>

NextList ==
    \/ \E new \in ListsOf(SampleIds) : ListSetSamples(new)
    \/ \E i \in 0..(Cardinality(SampleIds) - 1) : Highlight(i)
    \/ \E x \in SampleIds : Advance(x)

SpecList == Init /\ [][NextList]_vars

\* C33: set_samples never removes the highlighted sample: a sample that
\* was highlighted before the call is in the list after it, also when the
\* new samples do not hold it, and the highlighted index designates it; after
\* the call the list is sorted by execution time, longest first, and holds
\* no sample twice.
C33_HighlightedSampleKept ==
    [][last' = Op("set_samples", "main") =>
          /\ highlighted # NoHighlight =>
                 /\ highlighted' \in 0..(Len(slist') - 1)
                 /\ slist'[highlighted' + 1] = slist[highlighted + 1]
          /\ \A i \in 1..(Len(slist') - 1) :
                 exec_time'[slist'[i]] >= exec_time'[slist'[i + 1]]
          /\ \A i, j \in 1..Len(slist') : slist'[i] = slist'[j] => i = j]_vars

\* the highlighted sample a was not among the new samples and is in the
\* list still, highlighted, behind the sample that ran longer
C33_Witness ==
    /\ last = Op("set_samples", "main")
    /\ call_arg = <<"b">>
    /\ slist = <<"b", "a">>
    /\ highlighted = 1
    /\ exec_time["b"] > exec_time["a"]

-----------------------------------------------------------------------------
(* The throttle of the samples view *)

MaxClock == 3

\* the numbers of samples given to the view
Counts == {0, 100, 149, 150, 250}

\* round(num / den) of Python: to the nearest integer, a tie to the even one
py_round(num, den) ==
    LET q == num \div den
        r == num % den
    IN IF 2 * r < den THEN q
       ELSE IF 2 * r > den THEN q + 1
       ELSE IF q % 2 = 0 THEN q ELSE q + 1

\* throttle = round(max(len(samples) / 100, 1))
throttle(n) == py_round(IF n > 100 THEN n ELSE 100, 100)

\* SamplesView.set_samples(samples) with n samples, of which the list new is
\* followed here
ViewSetSamples(n, new) ==
    /\ Len(new) <= n
    /\ count' = n
    /\ elapsed' = now - last_updated
    /\ fwd' = (now - last_updated > throttle(n))
    /\ IF now - last_updated > throttle(n)
       THEN ListUpdate(new) /\ last_updated' = now
       ELSE UNCHANGED <<slist, highlighted, last_updated>>
    /\ last' = Op("view_set_samples", "main")
    /\ UNCHANGED <<events, ctx, ustate, frames, store, tstate, tasks, toolbar, completed, nres, creq, sunk, interrupt_action, dvars, fvars>>
    /\ UNCHANGED <<exec_time, now>>

\* time passes
Tick ==
    /\ now < MaxClock
    /\ now' = now + 1
    /\ last' = Op("tick", "main")
    /\ UNCHANGED <<events, ctx, ustate, frames, store, tstate, tasks, toolbar, completed, nres, creq, sunk, interrupt_action, dvars, fvars>>
    /\ UNCHANGED <<slist, highlighted, exec_time, last_updated, count, fwd, elapsed>>

NextView ==
    \/ \E n \in Counts, new \in ListsOf({"a", "b"}) : ViewSetSamples(n, new)
    \/ Tick

SpecView == Init /\ [][NextView]_vars

\* C34: the view forwards the samples to the list only when more than the
\* throttle interval has passed since the update forwarded last, and the
\* throttle interval, in seconds, is at most one per 100 samples, and one
\* for fewer than 100 samples: 100 * throttle <= max(count, 100).
C34_ThrottleWithinBound ==
    /\ fwd => elapsed > throttle(count)
    /\ 100 * throttle(count) <= (IF count > 100 THEN count ELSE 100)

-----------------------------------------------------------------------------
(* resolve_sandbox_environment *)

\* the strings that name sandbox types and configurations
Strs == {"local", "docker", "k8s", "compose.yaml"}

\* a value is a record of its class and its items: a str holds itself, a
\* tuple and a SandboxEnvironmentSpec (a NamedTuple) hold their fields
SandboxEnvironmentSpec(type, config) == [kind |-> "spec", items |-> <<type, config>>]

\* the arguments of type SandboxEnvironmentType | None
SandboxInputs ==
    {[kind |-> "str", items |-> <<s>>] : s \in Strs}
        \cup {[kind |-> "tuple", items |-> <<t, c>>] : t \in Strs, c \in Strs}
        \cup {SandboxEnvironmentSpec(t, c) : t \in Strs, c \in Strs \cup {None}}
        \cup {[kind |-> "none", items |-> <<>>]}

\* no value returned yet
Unset == [kind |-> "unset", items |-> <<>>]

ResolveDropsConfig(sandbox) ==
    LET isinstance(v, cls) ==
            IF cls = "tuple" THEN v.kind \in {"tuple", "spec"} ELSE v.kind = cls
    IN IF isinstance(sandbox, "str")
       THEN SandboxEnvironmentSpec(sandbox.items[1], None)
       ELSE IF isinstance(sandbox, "spec")
       THEN sandbox
       ELSE IF isinstance(sandbox, "tuple")
       THEN SandboxEnvironmentSpec(sandbox.items[1], None)
       ELSE [kind |-> "none", items |-> <<>>]

\* a SandboxEnvironmentSpec is a tuple too, and is tested first
resolve_sandbox_environment(sandbox) ==
    LET isinstance(v, cls) ==
            IF cls = "tuple" THEN v.kind \in {"tuple", "spec"} ELSE v.kind = cls
    IN IF isinstance(sandbox, "str")
       THEN SandboxEnvironmentSpec(sandbox.items[1], None)
       ELSE IF isinstance(sandbox, "spec")
       THEN sandbox
       ELSE IF isinstance(sandbox, "tuple")
       THEN SandboxEnvironmentSpec(sandbox.items[1], sandbox.items[2])
       ELSE [kind |-> "none", items |-> <<>>]

InitResolve ==
    /\ InitProgram
    /\ snapA = EmptyTree
    /\ snapB = EmptyTree
    /\ delta = <<>>
    /\ patched = <<>>
    /\ InitWidgets
    /\ call_arg \in SandboxInputs
    /\ call_result = Unset
    /\ call_again = Unset

\* resolve_sandbox_environment(call_arg)
Resolve ==
    /\ call_result = Unset
    /\ call_result' = resolve_sandbox_environment(call_arg)
    /\ UNCHANGED <<pvars, dvars, wvars, call_arg, call_again>>

\* the value returned is resolved once more
ResolveAgain ==
    /\ call_result # Unset
    /\ call_again = Unset
    /\ call_again' = resolve_sandbox_environment(call_result)
    /\ UNCHANGED <<pvars, dvars, wvars, call_arg, call_result>>

NextResolve ==
    \/ Resolve
    \/ ResolveAgain

SpecResolve == InitResolve /\ [][NextResolve]_vars

\* C35: resolve_sandbox_environment returns SandboxEnvironmentSpec(s, None)
\* for a string s, SandboxEnvironmentSpec(t, c) for a pair (t, c), the
\* argument for a SandboxEnvironmentSpec and None for None; resolving the
\* value returned returns it unchanged.
C35_ResolveByKindAndIdempotent ==
    /\ call_result # Unset =>
          /\ call_arg.kind = "str" =>
                call_result = [kind |-> "spec", items |-> <<call_arg.items[1], None>>]
          /\ call_arg.kind = "tuple" =>
                call_result = [kind |-> "spec", items |-> call_arg.items]
          /\ call_arg.kind = "spec" => call_result = call_arg
          /\ call_arg.kind = "none" => call_result = call_arg
    /\ call_again # Unset => call_again = call_result

C35_Witness ==
    /\ call_arg = [kind |-> "tuple", items |-> <<"docker", "compose.yaml">>]
    /\ call_result = [kind |-> "spec", items |-> <<"docker", "compose.yaml">>]
    /\ call_again = call_result

-----------------------------------------------------------------------------
(* The request and the choices of the Groq adapter's generate *)

\* the arguments of generate and the choices of the response: a value is a
\* record of its class and its content; the choices of the response hold
\* the messages a, b, c in the order received, under the indexes of order
GroqInputs ==
    [tools : {<<>>, <<"t1">>, <<"t1", "t2">>},
     tool_choice : {[kind |-> "str", v |-> s] : s \in {"auto", "any", "none"}}
                       \cup {[kind |-> "ToolFunction", v |-> "t1"],
                             [kind |-> "none", v |-> None]},
     config : [parallel_tool_calls : {None, "True", "False"},
               temperature : {None, "0.7"}],
     choices : {[i \in 1..Len(order) |->
                    [index |-> order[i], message |-> <<"a", "b", "c">>[i]]] :
                order \in {<<0>>, <<0, 1>>, <<1, 0>>, <<2, 0, 1>>}}]

ChatToolChoiceKeepsAny(tool_choice) ==
    IF tool_choice.kind = "ToolFunction"
    THEN [kind |-> "function", v |-> tool_choice.v]
    ELSE tool_choice

chat_tool_choice(tool_choice) ==
    IF tool_choice.kind = "ToolFunction"
    THEN [kind |-> "function", v |-> tool_choice.v]
    ELSE IF tool_choice = [kind |-> "str", v |-> "any"]
    THEN [kind |-> "str", v |-> "auto"]
    ELSE tool_choice

\* the parameters of the request: completion_params(config), and for a
\* list of tools that is not empty the tools, the tool choice and
\* parallel_tool_calls when the config sets it
generate_params(tools, tool_choice, config) ==
    LET completion_params ==
            IF config.temperature # None
            THEN "temperature" :> [kind |-> "float", v |-> config.temperature]
            ELSE [k \in {} |-> Unset]
        chat_tools == [kind |-> "list", v |-> tools]
        with_tools ==
            completion_params
                @@ ("tools" :> chat_tools)
                @@ ("tool_choice" :>
                       IF tool_choice.kind # "none"
                       THEN chat_tool_choice(tool_choice)
                       ELSE [kind |-> "str", v |-> "auto"])
    IN IF tools # <<>>
       THEN IF config.parallel_tool_calls # None
            THEN with_tools @@ ("parallel_tool_calls" :>
                                   [kind |-> "bool", v |-> config.parallel_tool_calls])
            ELSE with_tools
       ELSE completion_params

\* choices.sort(key=lambda c: c.index): stable, ascending
RECURSIVE sort_by_index(_)
sort_by_index(choices) ==
    IF choices = <<>> THEN <<>>
    ELSE LET c == Head(choices)
             rest == sort_by_index(Tail(choices))
             k == Cardinality({j \in 1..Len(rest) : rest[j].index < c.index})
         IN SubSeq(rest, 1, k) \o <<c>> \o SubSeq(rest, k + 1, Len(rest))

chat_choices_from_response(choices) ==
    [i \in 1..Len(choices) |-> [message |-> sort_by_index(choices)[i].message]]

InitGroq ==
    /\ InitProgram
    /\ snapA = EmptyTree
    /\ snapB = EmptyTree
    /\ delta = <<>>
    /\ patched = <<>>
    /\ InitWidgets
    /\ call_arg \in GroqInputs
    /\ call_result = <<>>
    /\ call_again = <<>>

\* generate(input, tools, tool_choice, config): the request made and the
\* choices returned
Generate ==
    /\ call_result = <<>>
    /\ call_result' =
           <<[params |-> generate_params(call_arg.tools, call_arg.tool_choice, call_arg.config),
              choices |-> chat_choices_from_response(call_arg.choices)]>>
    /\ UNCHANGED <<pvars, dvars, wvars, call_arg, call_again>>

NextGroq == Generate

SpecGroq == InitGroq /\ [][NextGroq]_vars

\* the index that the response gave to the choice with message m
IndexOfMessage(m) ==
    (CHOOSE c \in Range(call_arg.choices) : c.message = m).index

\* C36: the request of generate holds the keys tools, tool_choice and
\* parallel_tool_calls only for a list of tools that is not empty; then its
\* tool_choice is the function selector of a ToolFunction, "auto" for "any"
\* and for no choice, and the value given otherwise; the choices returned
\* are those of the response by ascending index.
C36_RequestAndChoices ==
    call_result # <<>> =>
        LET p == call_result[1].params
            out == call_result[1].choices
            given == call_arg.tool_choice
        IN /\ call_arg.tools = <<>> =>
                 DOMAIN p \cap {"tools", "tool_choice", "parallel_tool_calls"} = {}
           /\ call_arg.tools # <<>> =>
                 /\ "tool_choice" \in DOMAIN p
                 /\ given.kind = "ToolFunction" =>
                       p["tool_choice"] = [kind |-> "function", v |-> given.v]
                 /\ (given.kind = "none" \/ given.v = "any") =>
                       p["tool_choice"] = [kind |-> "str", v |-> "auto"]
                 /\ (given.kind = "str" /\ given.v # "any") =>
                       p["tool_choice"] = given
           /\ Len(out) = Len(call_arg.choices)
           /\ {out[j].message : j \in 1..Len(out)}
                 = {c.message : c \in Range(call_arg.choices)}
           /\ \A j, k \in 1..Len(out) :
                 j < k => IndexOfMessage(out[j].message) < IndexOfMessage(out[k].message)

C36_Witness ==
    /\ call_result # <<>>
    /\ call_arg.tools = <<"t1">>
    /\ call_arg.tool_choice = [kind |-> "str", v |-> "any"]
    /\ call_result[1].params["tool_choice"] = [kind |-> "str", v |-> "auto"]
    /\ "parallel_tool_calls" \in DOMAIN call_result[1].params
    /\ [i \in 1..Len(call_arg.choices) |-> call_arg.choices[i].index] = <<2, 0, 1>>
    /\ call_result[1].choices = <<[message |-> "b"], [message |-> "c"], [message |-> "a"]>>

-----------------------------------------------------------------------------
(* Further properties of the transcript binding (SpecCtx) *)

\* the transcript a context is bound to after the step
TranscriptAfter(u) == IF ctx'[u] = None THEN DefaultTranscript ELSE ctx'[u]

\* the units that are bound to the Transcript of their own
BoundToOwn(u) == u # "main" /\ ctx[u] = OwnTranscript(u)

\* C21: for sibling units each bound to its own transcript, under every
\* interleaving, the transcript of a unit changes only when that unit
\* records, by one event appended at its tail, and a record of the unit
\* changes no other transcript: each transcript holds exactly the events of
\* its unit, in the order the unit appended them.
C21_SiblingsKeepApart ==
    [][\A u \in {"sub1", "sub2"} :
          BoundToOwn(u) =>
              /\ events'[OwnTranscript(u)] # events[OwnTranscript(u)] =>
                     /\ last' = Op("info", u)
                     /\ Len(events'[OwnTranscript(u)])
                            = Len(events[OwnTranscript(u)]) + 1
                     /\ SubSeq(events'[OwnTranscript(u)], 1,
                               Len(events[OwnTranscript(u)]))
                            = events[OwnTranscript(u)]
              /\ (last' = Op("info", u) /\ events' # events) =>
                     \A t \in Transcripts \ {OwnTranscript(u)} :
                         events'[t] = events[t]]_vars

\* both siblings are bound to their own transcript and each has recorded
C21_Witness ==
    /\ BoundToOwn("sub1") /\ BoundToOwn("sub2")
    /\ ustate["sub1"] = "running" /\ ustate["sub2"] = "running"
    /\ events["t_sub1"] = <<InfoEvent("d1")>>
    /\ events["t_sub2"] = <<InfoEvent("d2")>>

\* C22: a unit that is started has the transcript that was current in its
\* parent at that moment, and keeps it until it calls init_transcript
\* itself, whatever its parent and its siblings bind later.
C22_ChildInheritsBinding ==
    [][\A u \in Units \ {"main"} :
          /\ (ustate[u] = "idle" /\ ustate'[u] = "running") =>
                 TranscriptAfter(u) = transcript(Parent(u))
          /\ (ustate[u] = "running"
                 /\ ~(last' = Op("init_transcript", u) /\ ctx'[u] = OwnTranscript(u))) =>
                 TranscriptAfter(u) = transcript(u)]_vars

\* a subtask started by the bound sample recorded into the sample's
\* transcript, which it inherited, while its sibling had bound its own
C22_Witness ==
    /\ ustate["sub1"] = "running" /\ ctx["sub1"] = "t_sample"
    /\ ctx["sub2"] = "t_sub2"
    /\ last = Op("info", "sub1")
    /\ Len(events["t_sample"]) >= 1

\* C24: info(data) called by a unit appends one info event at the tail of
\* the transcript of the unit's context and leaves the earlier events of that
\* transcript and every other transcript as they are; the event carries data
\* given (seen for the contexts without binding, whose data are kept).
C24_InfoAppendsOne ==
    [][\A u \in Units :
          (last' = Op("info", u) /\ events' # events) =>
              LET t == IF ctx[u] = None THEN DefaultTranscript ELSE ctx[u]
              IN /\ \E d \in Data :
                        events'[t] = Append(events[t],
                            [event |-> "info", pending |-> None, data |-> d])
                 /\ \A o \in Transcripts \ {t} : events'[o] = events[o]
                 /\ ctx[u] = None =>
                        Last(events'[t]).data = Last(sunk')]_vars

\* a second info event at the tail of a subtask's own transcript
C24_Witness ==
    /\ last = Op("info", "sub1")
    /\ ctx["sub1"] = "t_sub1"
    /\ events["t_sub1"] = <<InfoEvent("d1"), InfoEvent("d2")>>

-----------------------------------------------------------------------------
(* Further properties of the cancelled marker (SpecTool) *)

\* the tool-call events of the sample transcript before a step
ToolsBefore == {i \in ToolSlots : IsTool(SampleEvents[i])}

\* the event in slot i of the sample transcript after the step
SampleEventAfter(i) == events'["t_sample"][i]

\* C26: the cancelled marker becomes true only in a step that is a _cancel
\* on an event with its backing task attached, and every such _cancel on a
\* pending event makes it true; an event has the marker false when it is
\* created and as long as no task is attached; a resolution, with an error
\* or with a result, never changes the marker, and no step makes a true
\* marker false again.
C26_CancelledMarkerExact ==
    [][/\ \A i \in ToolsBefore :
             LET e == SampleEvents[i]
                 f == SampleEventAfter(i)
             IN /\ cancelled(e) => cancelled(f)
                /\ (~cancelled(e) /\ cancelled(f)) =>
                       /\ e.task # None
                       /\ toolbar.display /\ toolbar.timeout_tool
                       /\ i = Len(SampleEvents)
                       /\ nres' = nres
                /\ "task" \in creq'[i] => cancelled(f)
                /\ nres'[i] # nres[i] => (cancelled(f) <=> cancelled(e))
                /\ e.task = None => ~cancelled(e)
       /\ \A i \in Slots :
             (i = Len(SampleEvents) + 1 /\ Len(events'["t_sample"]) = i
                 /\ IsTool(SampleEventAfter(i))) =>
                 ~cancelled(SampleEventAfter(i))]_vars

\* a cancelled event was resolved, and resolved again, and is still marked
C26_Witness ==
    \E i \in ToolSlots :
        /\ nres[i] = 2
        /\ SampleEvents[i].pending = None
        /\ SampleEvents[i].error = None
        /\ cancelled(SampleEvents[i])

\* C27: a _cancel on a pending event that has no backing task attached
\* requests no cancellation and sets no marker, and if no further _cancel
\* comes the task attached afterwards is never cancelled, it runs to its
\* end, and the event is resolved with the marker false.
C27_EarlyCancelIsLost ==
    [][\A i \in ToolsBefore :
          LET e == SampleEvents[i]
              f == SampleEventAfter(i)
          IN /\ (creq[i] = {} /\ creq'[i] = {"no_task"}) =>
                    /\ tasks' = tasks
                    /\ ~cancelled(f)
             /\ (creq[i] = {"no_task"} /\ e.pending = True) =>
                    /\ ~cancelled(e)
                    /\ e.task # None => tasks[e.task] \in {"running", "done"}
                    /\ nres'[i] = 1 => (f.pending = None /\ ~cancelled(f))]_vars

\* the event was cancelled before its task was attached; the task ran to
\* its end and the event is resolved, not marked as cancelled
C27_Witness ==
    \E i \in ToolSlots :
        /\ creq[i] = {"no_task"}
        /\ SampleEvents[i].task # None
        /\ tasks[SampleEvents[i].task] = "done"
        /\ nres[i] = 1
        /\ ~cancelled(SampleEvents[i])

-----------------------------------------------------------------------------
(* Further properties of the step scope (SpecStep, SpecLog) *)

\* the step is the normal exit of the innermost open scope of unit u
ExitsScope(u) ==
    /\ frames[u] # <<>>
    /\ Len(frames'[u]) < Len(frames[u])
    /\ last' = Op("step_exit", u)

\* C28: every event that a step scope appends when it is left goes to the
\* transcript on which step() was called, the one that holds its begin and
\* end events: no other transcript receives an event of the scope, also
\* when the context was bound to another transcript inside the scope.
C28_ScopeEventsInOneTranscript ==
    [][\A u \in Units :
          ExitsScope(u) =>
              \A t \in Transcripts \ {Last(frames[u]).self} :
                  events'[t] = events[t]]_vars

Kinds(evs) == [i \in 1..Len(evs) |-> evs[i].event]

\* C29: a scope that returns appends its store event (if any), then its
\* state event (if any), then its end event, in this order and after its
\* begin event and the events of the scoped work, which are in the
\* transcript already; no other step appends a store or a state event.
C29_ScopeEventOrder ==
    [][/\ \A u \in Units :
             ExitsScope(u) =>
                LET f == Last(frames[u])
                    t == transcript(u)
                    end == StepEvent("end", f.name, f.type)
                IN /\ \E j \in 1..Len(events[f.self]) :
                          events[f.self][j] = StepEvent("begin", f.name, f.type)
                   /\ IF f.self = t
                      THEN /\ Kinds(NewEvents(t)) \in
                                 {<<"step">>, <<"store", "step">>,
                                  <<"state", "step">>,
                                  <<"store", "state", "step">>}
                           /\ Last(NewEvents(t)) = end
                      ELSE /\ Kinds(NewEvents(t)) \in
                                 {<<>>, <<"store">>, <<"state">>,
                                  <<"store", "state">>}
                           /\ NewEvents(f.self) = <<end>>
       /\ last'.op # "step_exit" =>
             \A t \in Transcripts :
                 \A i \in (Len(events[t]) + 1)..Len(events'[t]) :
                     events'[t][i].event \notin {"store", "state"}]_vars

\* a scope of the sample with an info event, a store change and a state
\* change has returned
C29_Witness ==
    /\ last = Op("step_exit", "sample")
    /\ Kinds(events["t_sample"]) = <<"step", "info", "store", "state", "step">>

-----------------------------------------------------------------------------
(* Nested step scopes (SpecNested) *)

\* the positions of the store events of a sequence of events
StoreEventsOf(evs) == {i \in 1..Len(evs) : evs[i].event = "store"}

\* two sequences of change records report the same mutation
SameMutation(c1, c2) ==
    \E a \in 1..Len(c1), b \in 1..Len(c2) :
        c1[a].path = c2[b].path /\ c1[a].value = c2[b].value

\* C30: with nested step scopes on one transcript, a store mutation is
\* reported by one store event of the transcript and no more: a mutation that
\* the store event of an inner scope reports is not in the store event of
\* the enclosing scope.
C30_MutationReportedOnce ==
    \A t \in Transcripts :
        \A i, j \in StoreEventsOf(events[t]) :
            i < j => ~SameMutation(events[t][i].changes, events[t][j].changes)

-----------------------------------------------------------------------------
(* Units that share a store (SpecShare) *)

\* the change records of the store events that the step appends to t
NewStoreRecords(t) ==
    UNION {{NewEvents(t)[i].changes[j] : j \in 1..Len(NewEvents(t)[i].changes)}
           : i \in StoreEventsOf(NewEvents(t))}

-----------------------------------------------------------------------------
(* Events once appended (SpecEvents) *)

\* the fields of a tool-call event that its resolution sets
InFlightFields(e) == <<e.result, e.truncated, e.error, e.events, e.pending>>

\* C23: an event that is in a transcript is never replaced or removed; no
\* step that appends to a transcript (info, the begin and end of a step, the
\* store and state tracking) changes any field of an event that is in a
\* transcript already; an event that is not a tool-call event never changes;
\* and the result, truncation range, error, nested events and pending of a
\* tool-call event change only in a step that is a resolution call on it.
C23_EventsImmutable ==
    [][\A t \in Transcripts :
          /\ Len(events'[t]) >= Len(events[t])
          /\ \A i \in 1..Len(events[t]) :
                LET e == events[t][i]
                    f == events'[t][i]
                IN /\ f.event = e.event
                   /\ ~IsTool(e) => f = e
                   /\ (\E o \in Transcripts : Len(events'[o]) > Len(events[o]))
                          => f = e
                   /\ IsTool(e) =>
                          /\ f.id = e.id
                          /\ InFlightFields(f) # InFlightFields(e) =>
                                 /\ t = "t_sample"
                                 /\ nres'[i] = nres[i] + 1]_vars

\* inside a step scope of the sample a tool call was cancelled and resolved,
\* and the scope has returned
C23_Witness ==
    /\ Kinds(events["t_sample"]) = <<"step", "tool", "step">>
    /\ events["t_sample"][2].pending = None
    /\ cancelled(events["t_sample"][2])
    /\ nres[2] = 1

-----------------------------------------------------------------------------
(* Bracketing of nested step scopes (SpecNested) *)

\* the scopes left open by the step events of evs from position i on, given
\* the open scopes so far (innermost last); Unmatched when an end event does
\* not match the most recent begin event without an end
Unmatched == <<[name |-> "unmatched", type |-> "unmatched"]>>

RECURSIVE OpenAfter(_, _, _)
OpenAfter(evs, i, open) ==
    IF i > Len(evs) THEN open
    ELSE IF evs[i].event # "step" THEN OpenAfter(evs, i + 1, open)
    ELSE IF evs[i].action = "begin"
         THEN OpenAfter(evs, i + 1,
                        Append(open, [name |-> evs[i].name, type |-> evs[i].type]))
    ELSE IF open # <<>> /\ Last(open) = [name |-> evs[i].name, type |-> evs[i].type]
         THEN OpenAfter(evs, i + 1, SubSeq(open, 1, Len(open) - 1))
         ELSE Unmatched

\* the names and types of the scopes that unit u has open, innermost last
OpenOf(u) == [i \in 1..Len(frames[u]) |->
                 [name |-> frames[u][i].name, type |-> frames[u][i].type]]

StepEventsOf(evs, action) ==
    {i \in 1..Len(evs) : evs[i].event = "step" /\ evs[i].action = action}

\* C31: with nested step scopes on one transcript that return normally the
\* step events are well bracketed: each end event matches the most recent
\* begin event that has no end yet, in name and type, the begin events
\* without an end are those of the scopes still open, and once every scope
\* has returned there are as many end events as begin events.
C31_StepsWellBracketed ==
    /\ OpenAfter(events["t_sample"], 1, <<>>) = OpenOf("sample")
    /\ frames["sample"] = <<>> =>
           Cardinality(StepEventsOf(events["t_sample"], "begin"))
               = Cardinality(StepEventsOf(events["t_sample"], "end"))

\* a scope and a scope of another name and type inside it have returned
C31_Witness ==
    /\ frames["sample"] = <<>>
    /\ Len(events["t_sample"]) = 4
    /\ events["t_sample"][1] = StepEvent("begin", "generate", "solver")
    /\ events["t_sample"][2] = StepEvent("begin", "plan", None)
    /\ events["t_sample"][3] = StepEvent("end", "plan", None)
    /\ events["t_sample"][4] = StepEvent("end", "generate", "solver")

-----------------------------------------------------------------------------
(* The toolbar after a synchronisation (SpecSample) *)

\* the tail event of the sample transcript after the step is pending
TailPendingAfter ==
    /\ Len(events'["t_sample"]) > 0
    /\ Last(events'["t_sample"]).pending = True

\* C32: a sync_sample leaves the toolbar displayed iff a sample is given and
\* is not completed, the pending status visible iff moreover the transcript
\* has a last event and that event is pending, the Timeout Tool button
\* displayed iff moreover that event is a tool-call event, and the clock
\* running iff the pending status is visible; only sync_sample changes the
\* toolbar.
C32_ToolbarAfterSync ==
    [][toolbar' # toolbar =>
          /\ events' = events /\ completed' = completed
          /\ toolbar'.display <=> (toolbar'.sample # None /\ ~completed')
          /\ toolbar'.pending_status <=> (toolbar'.display /\ TailPendingAfter)
          /\ toolbar'.timeout_tool <=>
                 (toolbar'.pending_status /\ IsTool(Last(events'["t_sample"])))
          /\ toolbar'.clock <=> toolbar'.pending_status]_vars

\* the toolbar was synchronised while a model call was pending: the status is
\* visible and the clock runs, with no Timeout Tool button
C32_Witness ==
    /\ toolbar = [sample |-> "s", display |-> TRUE, pending_status |-> TRUE,
                  timeout_tool |-> FALSE, clock |-> TRUE]
    /\ HasLast /\ Last(SampleEvents).event = "model"
    /\ Last(SampleEvents).pending = True
    /\ ~completed

====
